---- MODULE Spec2Model ----
(***************************************************************************)
(* EduResult (src/index.tsx): the record store of students and exam        *)
(* folders, the record normaliser and grade engine, the AI extraction      *)
(* client with its scanner, and the localStorage persistence effects.      *)
(*                                                                         *)
(* Conventions of the model                                                *)
(*  - a JSON value of a mark is a record [t, v]: t = "num" a number v,     *)
(*    t = "str" the string of the digits of v, t = "nan" a string that     *)
(*    Number() does not read (v = 0);                                      *)
(*  - a Partial<Student> is a function whose DOMAIN is the set of keys     *)
(*    that are present;                                                    *)
(*  - percentage is kept in hundredths (9000 is 90.00);                    *)
(*  - a roll number is a sequence of characters, "" is <<>>;               *)
(*  - crypto.randomUUID() is the counter uuid: never the same value twice. *)
(***************************************************************************)
EXTENDS Integers, Sequences, FiniteSets, TLC

VARIABLES
    pc,               \* position of the App's start-up: effects of the first commit
    durableS,         \* localStorage['student_db']
    durableE,         \* localStorage['exam_db']
    queuedS,          \* setStudents(...) queued by the load effect
    queuedE,          \* setExams(...) queued by the load effect
    students,         \* App state: students
    exams,            \* App state: exams
    dirtyS,           \* the [students] effect is due (students got a new array)
    dirtyE,           \* the [exams] effect is due
    page,             \* App state: page
    isAdmin,          \* App state: isAdmin
    selected,         \* App state: selected (the student the result page shows)
    currentExam,      \* AdminDashboard state
    showExamModal,    \* AdminDashboard state
    showStudentModal, \* AdminDashboard state
    showScanner,      \* AdminDashboard state
    editingId,        \* AdminDashboard state
    formData,         \* AdminDashboard state
    cameraActive,     \* AICameraScanner state
    capturedImage,    \* AICameraScanner state (TRUE: an image is held)
    isScanning,       \* AICameraScanner state
    scanError,        \* AICameraScanner state (TRUE: an error text is shown)
    inflight,         \* pending extractStudentDetailsFromImage promises
    uuid,             \* last value handed out by crypto.randomUUID()
    probe             \* SpecStore: the handler applied and the store it was applied to;
                      \* SpecFind: the lookup asked and whether the alert was shown

vars == <<pc, durableS, durableE, queuedS, queuedE, students, exams, dirtyS, dirtyE,
          page, isAdmin, selected, currentExam, showExamModal, showStudentModal, showScanner,
          editingId, formData, cameraActive, capturedImage, isScanning, scanError,
          inflight, uuid, probe>>

storeVars == <<students, exams, dirtyS, dirtyE>>
durableVars == <<durableS, durableE>>
bootVars == <<queuedS, queuedE>>
navVars == <<page, isAdmin, selected>>
formVars == <<showStudentModal, editingId, formData>>
scannerVars == <<cameraActive, capturedImage, isScanning, scanError>>

----------------------------------------------------------------------------
(* Bounds of the exploration *)

MaxUuid == 4          \* the last id crypto.randomUUID() hands out (the first is 3)
MaxStudents == 2      \* students held by the store
MaxExams == 2         \* exams held by the store
MaxInflight == 1      \* extraction promises pending at once
MaxMark == 100        \* the form's max attribute

----------------------------------------------------------------------------
(* Data *)

Subjects == {"math", "science", "english", "history", "computer"}
SubjectOrder == <<"math", "science", "english", "history", "computer">>

Num(n) == [t |-> "num", v |-> n]
NumStr(n) == [t |-> "str", v |-> n]
NaNStr == [t |-> "nan", v |-> 0]

\* Number(b) || 0
NumberOrZero(b) == IF b.t \in {"num", "str"} THEN b.v ELSE 0

ZeroMarks == [k \in Subjects |-> Num(0)]

NoExam == [id |-> 0, name |-> ""]

\* selected === null
NoStudent == [id |-> 0]

EmptyForm == [name |-> "", rollNo |-> <<>>, className |-> "", examName |-> "",
              marks |-> ZeroMarks]

\* key present and truthy (a non-empty string, a non-empty roll number, an id)
Has(d, k) == k \in DOMAIN d
Truthy(d, k) ==
    /\ Has(d, k)
    /\ CASE k = "rollNo" -> d[k] # <<>>
         [] k = "id" -> d[k] # 0
         [] k = "marks" -> TRUE
         [] OTHER -> d[k] # ""

RECURSIVE SumSeq(_)
SumSeq(s) == IF s = <<>> THEN 0 ELSE Head(s) + SumSeq(Tail(s))

RECURSIVE SetToSeq(_)
SetToSeq(S) == IF S = {} THEN <<>>
               ELSE LET x == CHOOSE y \in S : TRUE IN <<x>> \o SetToSeq(S \ {x})

\* Object.values(m).reduce((a, b) => a + (Number(b) || 0), 0): every value of m,
\* whatever its key
SumValues(m) ==
    LET ks == SetToSeq(DOMAIN m)
    IN  SumSeq([i \in 1..Len(ks) |-> NumberOrZero(m[ks[i]])])

\* Number((num / den).toFixed(2)), in hundredths: round half up
ToFixed2(num, den) == (2 * 100 * num + den) \div (2 * den)

----------------------------------------------------------------------------
(* Grade engine and record normaliser *)

calculateGrade_exclusive(percentage) ==
    IF percentage > 9000 THEN "A+"
    ELSE IF percentage > 8000 THEN "A"
    ELSE IF percentage > 7000 THEN "B"
    ELSE IF percentage > 5500 THEN "C"
    ELSE IF percentage > 3500 THEN "D"
    ELSE "F"

calculateGrade(percentage) ==
    IF percentage >= 9000 THEN "A+"
    ELSE IF percentage >= 8000 THEN "A"
    ELSE IF percentage >= 7000 THEN "B"
    ELSE IF percentage >= 5500 THEN "C"
    ELSE IF percentage >= 3500 THEN "D"
    ELSE "F"

\* data.marks || { math: 0, ... }
MarksOf(data) == IF Truthy(data, "marks") THEN data.marks ELSE ZeroMarks

\* a plausible slip: the id is generated on every call, id: crypto.randomUUID()
processStudentData_newid(data, fresh) ==
    LET m == MarksOf(data)
        total == SumValues(m)
        percentage == ToFixed2(total, 5)
    IN  [id |-> fresh,
         name |-> IF Truthy(data, "name") THEN data.name ELSE "",
         rollNo |-> IF Truthy(data, "rollNo") THEN data.rollNo ELSE <<>>,
         className |-> IF Truthy(data, "className") THEN data.className ELSE "",
         examName |-> IF Truthy(data, "examName") THEN data.examName ELSE "Standard Exam",
         marks |-> m,
         total |-> total,
         percentage |-> percentage,
         grade |-> calculateGrade(percentage)]

\* processStudentData(data); fresh is what crypto.randomUUID() returns if called
processStudentData(data, fresh) ==
    LET m == MarksOf(data)
        total == SumValues(m)
        percentage == ToFixed2(total, 5)
    IN  [id |-> IF Truthy(data, "id") THEN data.id ELSE fresh,
         name |-> IF Truthy(data, "name") THEN data.name ELSE "",
         rollNo |-> IF Truthy(data, "rollNo") THEN data.rollNo ELSE <<>>,
         className |-> IF Truthy(data, "className") THEN data.className ELSE "",
         examName |-> IF Truthy(data, "examName") THEN data.examName ELSE "Standard Exam",
         marks |-> m,
         total |-> total,
         percentage |-> percentage,
         grade |-> calculateGrade(percentage)]

----------------------------------------------------------------------------
(* Extraction client *)

\* the capability's answers: a rejected call, a text that is no JSON, an empty text,
\* an object without className, examName and two marks, an object of the schema, and
\* one with a sixth mark
AllResponses == {"transport", "unparseable", "empty", "missing", "conforming", "extra"}

\* the answers the scanner is run with
Responses == AllResponses \ {"empty"}

SheetMarks == [k \in Subjects |->
                 Num(CASE k = "math" -> 90 [] k = "science" -> 80 [] k = "english" -> 70
                       [] k = "history" -> 60 [] OTHER -> 50)]

\* what JSON.parse(response.text || '{}') returns for each parseable response
ParsedPayload(resp) ==
    CASE resp = "conforming" ->
           [name |-> "Asha", rollNo |-> <<"a", "1">>, className |-> "10A",
            examName |-> "Sheet", marks |-> SheetMarks]
      [] resp = "extra" ->
           [name |-> "Asha", rollNo |-> <<"a", "1">>, className |-> "10A",
            examName |-> "Sheet",
            marks |-> [k \in Subjects \cup {"physics"} |->
                         IF k = "physics" THEN Num(50) ELSE SheetMarks[k]]]
      [] resp = "missing" ->
           [name |-> "Asha", rollNo |-> <<"a", "1">>,
            marks |-> [k \in {"math", "science", "english"} |-> SheetMarks[k]]]
      [] OTHER -> [k \in {} |-> ""]       \* '{}'

\* a plausible slip: the catch block returns an empty record instead of rethrowing
extractStudentDetailsFromImage_swallow(resp) ==
    [ok |-> TRUE, data |-> ParsedPayload(resp)]

\* extractStudentDetailsFromImage: generateContent rejects ("transport") or
\* JSON.parse throws ("unparseable"): the error is rethrown; anything else is returned
extractStudentDetailsFromImage(resp) ==
    IF resp \in {"transport", "unparseable"}
    THEN [ok |-> FALSE, data |-> [k \in {} |-> ""]]
    ELSE [ok |-> TRUE, data |-> ParsedPayload(resp)]

\* if (fixedExamName) extracted.examName = fixedExamName
WithExamName(d, fixed) ==
    IF fixed # ""
    THEN [k \in DOMAIN d \cup {"examName"} |-> IF k = "examName" THEN fixed ELSE d[k]]
    ELSE d

----------------------------------------------------------------------------
(* Persistence: localStorage values *)

Absent == [kind |-> "absent", items |-> <<>>]       \* getItem returns null
Corrupt == [kind |-> "corrupt", items |-> <<>>]     \* a string JSON.parse rejects

\* JSON.stringify(collection)
Serialize(coll) == [kind |-> "json", items |-> coll]

\* JSON.parse(s) of a string JSON.stringify wrote
Parse(s) == s.items

\* the effect of line 663 written with an empty dependency list: it keeps the
\* students of the first render
StudentsBlob_stale(ss) == Serialize(<<>>)

\* what the [students] effect writes
StudentsBlob(ss) == Serialize(ss)

\* what the [exams] effect writes
ExamsBlob(es) == Serialize(es)

----------------------------------------------------------------------------
(* Record store: the App's handlers, as functions of the collections *)

onAddStudent(ss, s) == Append(ss, s)

\* a plausible slip: the edited record is added beside the one it replaces
onUpdateStudent_append(ss, s) == Append(ss, s)

onUpdateStudent(ss, s) == [i \in 1..Len(ss) |-> IF ss[i].id = s.id THEN s ELSE ss[i]]

\* a plausible slip: the filter keeps the record it should remove
onDeleteStudent_inverted(ss, id) ==
    LET Keep(s) == s.id = id IN SelectSeq(ss, Keep)

onDeleteStudent(ss, id) ==
    LET Keep(s) == s.id # id IN SelectSeq(ss, Keep)

\* createdAt is not modelled
onAddExam(es, n, fresh) == Append(es, [id |-> fresh, name |-> n])

\* exams.find(e => e.id === id); NoExam when there is none (undefined)
FindExam(es, id) ==
    IF \E i \in 1..Len(es) : es[i].id = id
    THEN es[CHOOSE i \in 1..Len(es) :
              es[i].id = id /\ \A j \in 1..(i - 1) : es[j].id # id]
    ELSE NoExam

onDeleteExam_exams(es, id) ==
    LET Keep(e) == e.id # id IN SelectSeq(es, Keep)

\* a cascade that is forgotten
onDeleteExam_students_nocascade(ss, es, id) == ss

\* students.filter(s => s.examName !== ex?.name); ex undefined keeps every student
onDeleteExam_students(ss, es, id) ==
    LET ex == FindExam(es, id)
        Keep(s) == ex = NoExam \/ s.examName # ex.name
    IN  SelectSeq(ss, Keep)

----------------------------------------------------------------------------
(* Inputs of the operator *)

ExamInputs == {"Finals", " Midterm ", "   "}

\* examInput.trim()
TrimName(x) == CASE x = " Midterm " -> "Midterm" [] x = "   " -> "" [] OTHER -> x

NameInputs == {"Asha"}
ClassInputs == {"10A"}
RollInputs == {<<"a", "1">>}
MarkInputs == {90}
EditedSubjects == {"math"}

\* the stores a first run can have left in localStorage
SeedExam == [id |-> 1, name |-> "Finals"]
SeedStudent == processStudentData(
                   [name |-> "Ravi", rollNo |-> <<"a", "1">>, className |-> "10A",
                    examName |-> "Finals", marks |-> SheetMarks], 2)
SeedUuid == SeedStudent.id

----------------------------------------------------------------------------
(* State predicates of the user interface *)

\* page === 'admin' && isAdmin: the AdminDashboard is mounted
DashboardMounted == page = "admin" /\ isAdmin

\* the scanner (z-100) and the modals (z-90) are fixed, full-screen layers over the
\* page and the navbar: what lies under them takes no click
Overlay == showScanner \/ showStudentModal \/ showExamModal

\* every effect of the last commit has run: the next event is handled
Idle == pc = "running" /\ ~dirtyS /\ ~dirtyE

\* filteredStudents
filteredStudents ==
    LET Keep(s) == s.examName = currentExam.name
    IN  IF currentExam # NoExam THEN SelectSeq(students, Keep) ELSE <<>>

\* the value an <input type="number" required min="0" max="100"> shows for a mark, and
\* whether the browser lets the form be submitted with it
MarkShown(fd, sub) ==
    IF Has(fd, "marks") /\ sub \in DOMAIN fd.marks THEN fd.marks[sub] ELSE Num(0)

FormValid(fd) ==
    /\ Truthy(fd, "name") /\ Truthy(fd, "rollNo") /\ Truthy(fd, "className")
    /\ \A sub \in Subjects :
          /\ MarkShown(fd, sub).t # "nan"
          /\ MarkShown(fd, sub).v \in 0..MaxMark

ResetDashboard ==
    /\ currentExam' = NoExam
    /\ showExamModal' = FALSE
    /\ showStudentModal' = FALSE
    /\ showScanner' = FALSE
    /\ editingId' = 0
    /\ formData' = EmptyForm

ResetScanner ==
    /\ cameraActive' = FALSE
    /\ capturedImage' = FALSE
    /\ isScanning' = FALSE
    /\ scanError' = FALSE

\* the scanner is unmounted: its pending promises outlive it
Orphaned(fl) == [i \in 1..Len(fl) |-> [fl[i] EXCEPT !.own = FALSE]]

\* the dashboard is unmounted: the setters its promises hold do nothing any more
Detached(fl) == [i \in 1..Len(fl) |-> [fl[i] EXCEPT !.own = FALSE, !.live = FALSE]]

RemoveAt(s, i) == SubSeq(s, 1, i - 1) \o SubSeq(s, i + 1, Len(s))

----------------------------------------------------------------------------
(* Start-up: the effects of the first commit, in the order they are declared *)

Init ==
    /\ pc = "init"
    /\ durableS \in {Absent, Corrupt, Serialize(<<SeedStudent>>)}
    /\ durableE \in {Absent, Corrupt, Serialize(<<SeedExam>>)}
    /\ durableS = Serialize(<<SeedStudent>>) => durableE # Absent
    /\ durableE = Serialize(<<SeedExam>>) => durableS # Absent
    /\ queuedS = [set |-> FALSE, items |-> <<>>]
    /\ queuedE = [set |-> FALSE, items |-> <<>>]
    /\ students = <<>>
    /\ exams = <<>>
    /\ dirtyS = TRUE
    /\ dirtyE = TRUE
    /\ page = "landing"
    /\ isAdmin = FALSE
    /\ selected = NoStudent
    /\ currentExam = NoExam
    /\ showExamModal = FALSE
    /\ showStudentModal = FALSE
    /\ showScanner = FALSE
    /\ editingId = 0
    /\ formData = EmptyForm
    /\ cameraActive = FALSE
    /\ capturedImage = FALSE
    /\ isScanning = FALSE
    /\ scanError = FALSE
    /\ inflight = <<>>
    /\ uuid = SeedUuid
    /\ probe = <<>>

\* if (s) setStudents(JSON.parse(s))
Queued(blob) == [set |-> blob.kind = "json", items |-> Parse(blob)]

\* the load effect. JSON.parse throws on a corrupt value: the effect throws, the later
\* lines and effects of the commit are not run and React unmounts the root
LoadEffect ==
    /\ pc = "init"
    /\ IF durableS = Corrupt
       THEN pc' = "crashed" /\ UNCHANGED bootVars
       ELSE /\ queuedS' = Queued(durableS)
            /\ IF durableE = Corrupt
               THEN pc' = "crashed" /\ UNCHANGED queuedE
               ELSE pc' = "effects" /\ queuedE' = Queued(durableE)
    /\ UNCHANGED <<durableVars, storeVars, navVars, currentExam, showExamModal, formVars,
                   showScanner, scannerVars, inflight, uuid, probe>>

\* useEffect(() => localStorage.setItem('student_db', JSON.stringify(students)), [students])
FlushStudents ==
    /\ pc \in {"effects", "running"}
    /\ dirtyS
    /\ durableS' = StudentsBlob(students)
    /\ dirtyS' = FALSE
    /\ UNCHANGED <<pc, durableE, bootVars, students, exams, dirtyE, navVars, currentExam,
                   showExamModal, formVars, showScanner, scannerVars, inflight, uuid, probe>>

\* useEffect(() => localStorage.setItem('exam_db', JSON.stringify(exams)), [exams])
FlushExams ==
    /\ pc \in {"effects", "running"}
    /\ ~dirtyS
    /\ dirtyE
    /\ durableE' = ExamsBlob(exams)
    /\ dirtyE' = FALSE
    /\ UNCHANGED <<pc, durableS, bootVars, students, exams, dirtyS, navVars, currentExam,
                   showExamModal, formVars, showScanner, scannerVars, inflight, uuid, probe>>

\* the render of the state the load effect queued
ApplyLoaded ==
    /\ pc = "effects"
    /\ ~dirtyS /\ ~dirtyE
    /\ pc' = "running"
    /\ students' = IF queuedS.set THEN queuedS.items ELSE students
    /\ exams' = IF queuedE.set THEN queuedE.items ELSE exams
    /\ dirtyS' = queuedS.set
    /\ dirtyE' = queuedE.set
    /\ UNCHANGED <<durableVars, bootVars, navVars, currentExam, showExamModal, formVars,
                   showScanner, scannerVars, inflight, uuid, probe>>

----------------------------------------------------------------------------
(* Navigation *)

LeaveDashboard ==
    IF DashboardMounted
    THEN ResetDashboard /\ ResetScanner /\ inflight' = Detached(inflight)
    ELSE UNCHANGED <<currentExam, showExamModal, formVars, showScanner, scannerVars,
                     inflight>>

\* Navbar: the logo, setPage('landing')
GoLanding ==
    /\ Idle
    /\ ~(DashboardMounted /\ Overlay)
    /\ page # "landing"
    /\ page' = "landing"
    /\ LeaveDashboard
    /\ UNCHANGED <<pc, durableVars, bootVars, storeVars, isAdmin, selected, uuid, probe>>

\* Navbar: Admin Access, setPage('login')
GoLogin ==
    /\ Idle
    /\ ~isAdmin
    /\ page # "login"
    /\ page' = "login"
    /\ UNCHANGED <<pc, durableVars, bootVars, storeVars, isAdmin, selected, currentExam,
                   showExamModal, formVars, showScanner, scannerVars, inflight, uuid,
                   probe>>

\* Login.handleLogin with the credentials admin/admin, then App.handleLogin
handleLogin ==
    /\ Idle
    /\ page = "login"
    /\ isAdmin' = TRUE
    /\ page' = "admin"
    /\ UNCHANGED <<pc, durableVars, bootVars, storeVars, selected, currentExam, showExamModal,
                   formVars, showScanner, scannerVars, inflight, uuid, probe>>

\* App.handleLogout
handleLogout ==
    /\ Idle
    /\ isAdmin
    /\ ~(DashboardMounted /\ Overlay)
    /\ isAdmin' = FALSE
    /\ page' = "landing"
    /\ LeaveDashboard
    /\ UNCHANGED <<pc, durableVars, bootVars, storeVars, selected, uuid, probe>>

----------------------------------------------------------------------------
(* AdminDashboard: exam folders *)

\* New Exam Folder
OpenExamModal ==
    /\ Idle /\ DashboardMounted /\ ~Overlay
    /\ currentExam = NoExam
    /\ showExamModal' = TRUE
    /\ UNCHANGED <<pc, durableVars, bootVars, storeVars, navVars, currentExam, formVars,
                   showScanner, scannerVars, inflight, uuid, probe>>

\* the exam modal's Cancel
CancelExamModal ==
    /\ Idle /\ DashboardMounted
    /\ showExamModal
    /\ showExamModal' = FALSE
    /\ UNCHANGED <<pc, durableVars, bootVars, storeVars, navVars, currentExam, formVars,
                   showScanner, scannerVars, inflight, uuid, probe>>

\* handleAddExam with examInput = input, and App.onAddExam
handleAddExam(input) ==
    /\ Idle /\ DashboardMounted
    /\ showExamModal
    /\ IF TrimName(input) # ""
       THEN /\ Len(exams) < MaxExams
            /\ uuid < MaxUuid
            /\ uuid' = uuid + 1
            /\ exams' = onAddExam(exams, TrimName(input), uuid + 1)
            /\ dirtyE' = TRUE
            /\ showExamModal' = FALSE
       ELSE UNCHANGED <<uuid, exams, dirtyE, showExamModal>>
    /\ UNCHANGED <<pc, durableVars, bootVars, students, dirtyS, navVars, currentExam,
                   formVars, showScanner, scannerVars, inflight, probe>>

\* a folder card is clicked: setCurrentExam(exam)
EnterFolder(i) ==
    /\ Idle /\ DashboardMounted /\ ~Overlay
    /\ currentExam = NoExam
    /\ i \in 1..Len(exams)
    /\ currentExam' = exams[i]
    /\ UNCHANGED <<pc, durableVars, bootVars, storeVars, navVars, showExamModal, formVars,
                   showScanner, scannerVars, inflight, uuid, probe>>

\* Back to Folders
BackToFolders ==
    /\ Idle /\ DashboardMounted /\ ~Overlay
    /\ currentExam # NoExam
    /\ currentExam' = NoExam
    /\ UNCHANGED <<pc, durableVars, bootVars, storeVars, navVars, showExamModal, formVars,
                   showScanner, scannerVars, inflight, uuid, probe>>

\* the folder's trash button, confirmed, and App.onDeleteExam: both setters run in
\* one event and are rendered in one commit
DeleteExam(i) ==
    /\ Idle /\ DashboardMounted /\ ~Overlay
    /\ currentExam = NoExam
    /\ i \in 1..Len(exams)
    /\ exams' = onDeleteExam_exams(exams, exams[i].id)
    /\ students' = onDeleteExam_students(students, exams, exams[i].id)
    /\ dirtyS' = TRUE
    /\ dirtyE' = TRUE
    /\ UNCHANGED <<pc, durableVars, bootVars, navVars, currentExam, showExamModal,
                   formVars, showScanner, scannerVars, inflight, uuid, probe>>

----------------------------------------------------------------------------
(* AdminDashboard: the student form *)

\* Add Student: openStudentModal()
OpenAddStudent ==
    /\ Idle /\ DashboardMounted /\ ~Overlay
    /\ currentExam # NoExam
    /\ formData' = [EmptyForm EXCEPT !.examName = currentExam.name]
    /\ editingId' = 0
    /\ showStudentModal' = TRUE
    /\ UNCHANGED <<pc, durableVars, bootVars, storeVars, navVars, currentExam,
                   showExamModal, showScanner, scannerVars, inflight, uuid, probe>>

\* the row's edit button: openStudentModal(s)
OpenEditStudent(i) ==
    /\ Idle /\ DashboardMounted /\ ~Overlay
    /\ i \in 1..Len(filteredStudents)
    /\ formData' = filteredStudents[i]
    /\ editingId' = filteredStudents[i].id
    /\ showStudentModal' = TRUE
    /\ UNCHANGED <<pc, durableVars, bootVars, storeVars, navVars, currentExam,
                   showExamModal, showScanner, scannerVars, inflight, uuid, probe>>

\* the row's trash button, confirmed, and App.onDeleteStudent
DeleteStudent(i) ==
    /\ Idle /\ DashboardMounted /\ ~Overlay
    /\ i \in 1..Len(filteredStudents)
    /\ students' = onDeleteStudent(students, filteredStudents[i].id)
    /\ dirtyS' = TRUE
    /\ UNCHANGED <<pc, durableVars, bootVars, exams, dirtyE, navVars, currentExam,
                   showExamModal, formVars, showScanner, scannerVars, inflight, uuid,
                   probe>>

\* {...formData, [k]: v}
SetKey(d, k, v) == [x \in DOMAIN d \cup {k} |-> IF x = k THEN v ELSE d[x]]

\* the text inputs' onChange
EditText(k, v) ==
    /\ Idle /\ DashboardMounted
    /\ showStudentModal
    /\ formData' = SetKey(formData, k, v)
    /\ formData' # formData
    /\ UNCHANGED <<pc, durableVars, bootVars, storeVars, navVars, currentExam,
                   showExamModal, showStudentModal, editingId, showScanner, scannerVars,
                   inflight, uuid, probe>>

\* a mark input's onChange:
\* {...formData, marks: {...formData.marks, [sub]: parseInt(e.target.value) || 0}}
EditMark(sub, n) ==
    /\ Idle /\ DashboardMounted
    /\ showStudentModal
    /\ formData' = SetKey(formData, "marks",
                          SetKey(IF Has(formData, "marks") THEN formData.marks
                                 ELSE [k \in {} |-> Num(0)], sub, Num(n)))
    /\ formData' # formData
    /\ UNCHANGED <<pc, durableVars, bootVars, storeVars, navVars, currentExam,
                   showExamModal, showStudentModal, editingId, showScanner, scannerVars,
                   inflight, uuid, probe>>

\* the modal's X and Cancel: setShowStudentModal(false)
CloseStudentModal ==
    /\ Idle /\ DashboardMounted
    /\ showStudentModal
    /\ showStudentModal' = FALSE
    /\ UNCHANGED <<pc, durableVars, bootVars, storeVars, navVars, currentExam,
                   showExamModal, editingId, formData, showScanner, scannerVars, inflight,
                   uuid, probe>>

\* { ...formData, examName: currentExam?.name || formData.examName }
SubmitData(fd, cur) ==
    IF cur # NoExam THEN SetKey(fd, "examName", cur.name)
    ELSE IF Has(fd, "examName") THEN fd
    ELSE SetKey(fd, "examName", "")

\* handleStudentSubmit, once the browser has validated the form
handleStudentSubmit ==
    /\ Idle /\ DashboardMounted
    /\ showStudentModal
    /\ FormValid(formData)
    /\ LET data == SubmitData(formData, currentExam)
       IN  IF editingId # 0
           THEN /\ students' = onUpdateStudent(students,
                                   processStudentData(SetKey(data, "id", editingId), 0))
                /\ UNCHANGED uuid
           ELSE /\ Len(students) < MaxStudents
                /\ IF Truthy(data, "id")
                   THEN UNCHANGED uuid
                   ELSE uuid < MaxUuid /\ uuid' = uuid + 1
                /\ students' = onAddStudent(students, processStudentData(data, uuid + 1))
    /\ dirtyS' = TRUE
    /\ showStudentModal' = FALSE
    /\ editingId' = 0
    /\ UNCHANGED <<pc, durableVars, bootVars, exams, dirtyE, navVars, currentExam,
                   showExamModal, formData, showScanner, scannerVars, inflight, probe>>

----------------------------------------------------------------------------
(* AdminDashboard: the AI scanner *)

\* AI Scan: setShowScanner(true); the scanner mounts and startCamera() is called
OpenScanner ==
    /\ Idle /\ DashboardMounted /\ ~Overlay
    /\ currentExam # NoExam
    /\ showScanner' = TRUE
    /\ ResetScanner
    /\ UNCHANGED <<pc, durableVars, bootVars, storeVars, navVars, currentExam,
                   showExamModal, formVars, inflight, uuid, probe>>

\* startCamera settles: getUserMedia rejects (setError), or it resolves and the
\* video's onloadedmetadata calls setCameraActive(true). The handler is attached
\* under if (videoRef.current); whether the element is there when the stream
\* arrives is the browser's timing, which the model leaves to the environment
\* together with the device: granted stands for a stream that reaches the video.
startCamera(granted) ==
    /\ Idle /\ DashboardMounted
    /\ showScanner
    /\ ~cameraActive /\ ~scanError
    /\ IF granted
       THEN cameraActive' = TRUE /\ UNCHANGED scanError
       ELSE scanError' = TRUE /\ UNCHANGED cameraActive
    /\ UNCHANGED <<pc, durableVars, bootVars, storeVars, navVars, currentExam,
                   showExamModal, formVars, showScanner, capturedImage, isScanning,
                   inflight, uuid, probe>>

\* a plausible slip: the capture button stays while the captured image is shown
CaptureShown_always == cameraActive

\* the capture button is rendered: !capturedImage && cameraActive
CaptureShown == ~capturedImage /\ cameraActive

\* captureAndScan up to its await, with room for max pending promises;
\* fixedExamName is the prop of the render the button belongs to
Capture(max) ==
    /\ Idle /\ DashboardMounted
    /\ showScanner
    /\ CaptureShown
    /\ Len(inflight) < max
    /\ capturedImage' = TRUE
    /\ isScanning' = TRUE
    /\ inflight' = Append(inflight, [fixed |-> currentExam.name, own |-> TRUE,
                                     live |-> TRUE])
    /\ UNCHANGED <<pc, durableVars, bootVars, storeVars, navVars, currentExam,
                   showExamModal, formVars, showScanner, cameraActive, scanError, uuid,
                   probe>>

\* the capture button of the application
captureAndScan == Capture(MaxInflight)

\* the scanner's X: stopCamera(); onClose()
CloseScanner ==
    /\ Idle /\ DashboardMounted
    /\ showScanner
    /\ showScanner' = FALSE
    /\ ResetScanner
    /\ inflight' = Orphaned(inflight)
    /\ UNCHANGED <<pc, durableVars, bootVars, storeVars, navVars, currentExam,
                   showExamModal, formVars, uuid, probe>>

\* captureAndScan after its await, the promise inflight[i] settling with resp.
\* Fulfilled: onScanComplete(extracted) is the closure of the render that started
\* the scan, d => { setFormData(d); setShowScanner(false); setShowStudentModal(true) },
\* whose setters act for as long as the dashboard is mounted.
\* Rejected: setError and setCapturedImage(null), and in both cases
\* setIsScanning(false), act on the scanner that started the scan if it is mounted.
ResolveScan(i, resp) ==
    /\ Idle
    /\ i \in 1..Len(inflight)
    /\ LET p == inflight[i]
           r == extractStudentDetailsFromImage(resp)
           rest == RemoveAt(inflight, i)
       IN  IF r.ok
           THEN IF p.live
                THEN /\ formData' = WithExamName(r.data, p.fixed)
                     /\ showScanner' = FALSE
                     /\ showStudentModal' = TRUE
                     /\ ResetScanner
                     /\ inflight' = Orphaned(rest)
                     /\ UNCHANGED editingId
                ELSE /\ inflight' = rest
                     /\ UNCHANGED <<formVars, showScanner, scannerVars>>
           ELSE /\ inflight' = rest
                /\ IF p.own
                   THEN /\ scanError' = TRUE
                        /\ capturedImage' = FALSE
                        /\ isScanning' = FALSE
                        /\ UNCHANGED cameraActive
                   ELSE UNCHANGED scannerVars
                /\ UNCHANGED <<formVars, showScanner>>
    /\ UNCHANGED <<pc, durableVars, bootVars, storeVars, navVars, currentExam,
                   showExamModal, uuid, probe>>

----------------------------------------------------------------------------
(* The application: the administrator's side. The lookup of the landing page,     *)
(* which reads the students and writes selected and page only, is SpecFind.      *)

StartUp == LoadEffect \/ FlushStudents \/ FlushExams \/ ApplyLoaded

Navigate == GoLanding \/ GoLogin \/ handleLogin \/ handleLogout

Folders ==
    \/ OpenExamModal
    \/ CancelExamModal
    \/ \E input \in ExamInputs : handleAddExam(input)
    \/ \E i \in 1..MaxExams : EnterFolder(i)
    \/ BackToFolders
    \/ \E i \in 1..MaxExams : DeleteExam(i)

Form ==
    \/ OpenAddStudent
    \/ \E i \in 1..MaxStudents : OpenEditStudent(i)
    \/ \E i \in 1..MaxStudents : DeleteStudent(i)
    \/ \E v \in NameInputs : EditText("name", v)
    \/ \E v \in RollInputs : EditText("rollNo", v)
    \/ \E v \in ClassInputs : EditText("className", v)
    \/ \E sub \in EditedSubjects, n \in MarkInputs : EditMark(sub, n)
    \/ CloseStudentModal
    \/ handleStudentSubmit

Scanner ==
    \/ OpenScanner
    \/ \E granted \in BOOLEAN : startCamera(granted)
    \/ captureAndScan
    \/ CloseScanner
    \/ \E i \in 1..MaxInflight, resp \in Responses : ResolveScan(i, resp)

Next == StartUp \/ Navigate \/ Folders \/ Form \/ Scanner

Spec == Init /\ [][Next]_vars

----------------------------------------------------------------------------
(* The record normaliser as a function: processStudentData applied to one input *)

\* five integer marks in 0..MaxMark with the total t, filled from the first subject
MarksOfTotal(t) ==
    [k \in Subjects |->
        LET i == CHOOSE j \in 1..5 : SubjectOrder[j] = k
            left == t - MaxMark * (i - 1)
        IN  Num(IF left <= 0 THEN 0 ELSE IF left >= MaxMark THEN MaxMark ELSE left)]

CleanMarks ==
    {MarksOfTotal(t) : t \in 0..(5 * MaxMark)}
        \cup {[k \in Subjects |-> Num(f[k])] : f \in [Subjects -> {0, 35, 89, MaxMark}]}
        \cup {[math |-> Num(95), science |-> Num(92), english |-> Num(88),
               history |-> Num(90), computer |-> Num(85)]}

\* marks no schema allows: keys absent, strings for numbers, a sixth key
DirtyMarks ==
    {[k \in {"math", "science", "english"} |-> SheetMarks[k]],
     [k \in {} |-> Num(0)],
     [k \in Subjects |-> IF k = "math" THEN NaNStr ELSE SheetMarks[k]],
     [k \in Subjects |-> IF k = "math" THEN NumStr(95) ELSE SheetMarks[k]],
     [k \in Subjects \cup {"physics"} |-> IF k = "physics" THEN Num(50) ELSE SheetMarks[k]]}

FormOf(m) == [name |-> "Asha", rollNo |-> <<"a", "1">>, className |-> "10A",
              examName |-> "Finals", marks |-> m]

NormInputs ==
    {FormOf(m) : m \in CleanMarks \cup DirtyMarks}
        \cup {[marks |-> m] : m \in DirtyMarks}
        \cup {WithExamName(extractStudentDetailsFromImage(r).data, f) :
                r \in {x \in AllResponses : extractStudentDetailsFromImage(x).ok},
                f \in {"", "Finals"}}
        \cup {SetKey(FormOf(ZeroMarks), "id", 1), [name |-> "Asha"]}

Quiet ==
    /\ durableS = Absent /\ durableE = Absent
    /\ queuedS = [set |-> FALSE, items |-> <<>>]
    /\ queuedE = [set |-> FALSE, items |-> <<>>]
    /\ dirtyS = FALSE /\ dirtyE = FALSE
    /\ page = "landing" /\ isAdmin = FALSE /\ selected = NoStudent
    /\ currentExam = NoExam
    /\ showExamModal = FALSE /\ showStudentModal = FALSE /\ showScanner = FALSE
    /\ editingId = 0
    /\ cameraActive = FALSE /\ capturedImage = FALSE /\ isScanning = FALSE
    /\ scanError = FALSE
    /\ inflight = <<>>
    /\ uuid = SeedUuid

InitNorm ==
    /\ pc = "norm"
    /\ Quiet
    /\ formData \in NormInputs
    /\ students = <<>>
    /\ exams = <<>>
    /\ probe = <<>>

\* students = [processStudentData(formData)]
Normalize ==
    /\ pc = "norm"
    /\ students = <<>>
    /\ students' = <<processStudentData(formData, uuid + 1)>>
    /\ uuid' = IF Truthy(formData, "id") THEN uuid ELSE uuid + 1
    /\ UNCHANGED <<pc, durableVars, bootVars, exams, dirtyS, dirtyE, navVars, currentExam,
                   showExamModal, formVars, showScanner, scannerVars, inflight, probe>>

\* students = [s, processStudentData(s)]: the record normalised once more
Renormalize ==
    /\ pc = "norm"
    /\ Len(students) = 1
    /\ students' = Append(students, processStudentData(students[1], uuid + 1))
    /\ uuid' = IF Truthy(students[1], "id") THEN uuid ELSE uuid + 1
    /\ UNCHANGED <<pc, durableVars, bootVars, exams, dirtyS, dirtyE, navVars, currentExam,
                   showExamModal, formVars, showScanner, scannerVars, inflight, probe>>

NextNorm == Normalize \/ Renormalize

SpecNorm == InitNorm /\ [][NextNorm]_vars

----------------------------------------------------------------------------
(* The record store as functions: one handler applied to one store *)

StoreExamNames == {"Finals", "Midterm"}

StoreExams ==
    {<<>>}
        \cup {<<[id |-> 1, name |-> n]>> : n \in StoreExamNames}
        \cup {<<[id |-> 1, name |-> n], [id |-> 2, name |-> m]>> :
                n \in StoreExamNames, m \in StoreExamNames}

StoreStudent(id, exam) ==
    processStudentData(SetKey(SetKey(FormOf(SheetMarks), "examName", exam), "id", id), 0)

RECURSIVE StoreStudentSeqs(_)
StoreStudentSeqs(n) ==
    IF n = 0 THEN {<<>>}
    ELSE LET shorter == StoreStudentSeqs(n - 1)
         IN  shorter \cup
             {Append(ss, StoreStudent(10 + Len(ss), e)) :
                ss \in {x \in shorter : Len(x) = n - 1}, e \in StoreExamNames}

StoreIds == {1, 2, 3}

InitStore ==
    /\ pc = "store"
    /\ Quiet
    /\ formData = EmptyForm
    /\ students \in StoreStudentSeqs(MaxStudents + 1)
    /\ exams \in StoreExams
    /\ probe = [op |-> "none", id |-> 0, students |-> <<>>, exams |-> <<>>]

\* App.onDeleteExam(id)
StoreDeleteExam(id) ==
    /\ pc = "store"
    /\ probe.op = "none"
    /\ exams' = onDeleteExam_exams(exams, id)
    /\ students' = onDeleteExam_students(students, exams, id)
    /\ probe' = [op |-> "deleteExam", id |-> id, students |-> students, exams |-> exams]
    /\ UNCHANGED <<pc, durableVars, bootVars, dirtyS, dirtyE, navVars, currentExam,
                   showExamModal, formVars, showScanner, scannerVars, inflight, uuid>>

\* the ids updateStudent and deleteStudent are called with: stored ones and one of
\* no student
StoreStudentIds == {10 + i : i \in 0..(MaxStudents + 1)}

\* an edited record, normalised
EditedStudent(id, exam) ==
    processStudentData([id |-> id, name |-> "Edited", rollNo |-> <<"a", "1">>,
                        className |-> "10B", examName |-> exam, marks |-> ZeroMarks], 0)

\* App.onUpdateStudent(s)
StoreUpdateStudent(s) ==
    /\ pc = "store"
    /\ probe.op = "none"
    /\ students' = onUpdateStudent(students, s)
    /\ probe' = [op |-> "updateStudent", id |-> s.id, students |-> students,
                 exams |-> exams, record |-> s]
    /\ UNCHANGED <<pc, durableVars, bootVars, exams, dirtyS, dirtyE, navVars, currentExam,
                   showExamModal, formVars, showScanner, scannerVars, inflight, uuid>>

\* App.onDeleteStudent(id): if (confirm('Delete record?')) setStudents(...)
StoreDeleteStudent(id, confirmed) ==
    /\ pc = "store"
    /\ probe.op = "none"
    /\ students' = IF confirmed THEN onDeleteStudent(students, id) ELSE students
    /\ probe' = [op |-> "deleteStudent", id |-> id, students |-> students,
                 exams |-> exams, confirmed |-> confirmed]
    /\ UNCHANGED <<pc, durableVars, bootVars, exams, dirtyS, dirtyE, navVars, currentExam,
                   showExamModal, formVars, showScanner, scannerVars, inflight, uuid>>

NextStore ==
    \/ \E id \in StoreIds : StoreDeleteExam(id)
    \/ \E id \in StoreStudentIds, e \in StoreExamNames :
          StoreUpdateStudent(EditedStudent(id, e))
    \/ \E id \in StoreStudentIds, confirmed \in BOOLEAN :
          StoreDeleteStudent(id, confirmed)

SpecStore == InitStore /\ [][NextStore]_vars

----------------------------------------------------------------------------
(* The scanner's attempts: the dashboard inside a folder, scans overlapping *)

MaxScans == 3         \* extraction promises pending at once, scanners reopened

InitScan ==
    /\ pc = "running"
    /\ durableS = Serialize(<<SeedStudent>>)
    /\ durableE = Serialize(<<SeedExam>>)
    /\ queuedS = [set |-> FALSE, items |-> <<>>]
    /\ queuedE = [set |-> FALSE, items |-> <<>>]
    /\ students = <<SeedStudent>>
    /\ exams = <<SeedExam>>
    /\ dirtyS = FALSE /\ dirtyE = FALSE
    /\ page = "admin" /\ isAdmin = TRUE /\ selected = NoStudent
    /\ currentExam = SeedExam
    /\ showExamModal = FALSE /\ showStudentModal = FALSE /\ showScanner = FALSE
    /\ editingId = 0
    /\ formData = EmptyForm
    /\ cameraActive = FALSE /\ capturedImage = FALSE /\ isScanning = FALSE
    /\ scanError = FALSE
    /\ inflight = <<>>
    /\ uuid = SeedUuid
    /\ probe = <<>>

\* the capture button, with room for MaxScans promises
captureAndScanAgain == Capture(MaxScans)

NextScan ==
    \/ OpenScanner
    \/ \E granted \in BOOLEAN : startCamera(granted)
    \/ captureAndScanAgain
    \/ CloseScanner
    \/ \E i \in 1..MaxScans, resp \in Responses : ResolveScan(i, resp)
    \/ CloseStudentModal
    \/ BackToFolders
    \/ \E i \in 1..MaxExams : EnterFolder(i)

SpecScan == InitScan /\ [][NextScan]_vars

----------------------------------------------------------------------------
(* The result lookup of the landing page: onCheckResult applied to one store *)

\* String.prototype.trim on a sequence of characters, " " the whitespace
RECURSIVE TrimStart(_)
TrimStart(s) == IF s # <<>> /\ Head(s) = " " THEN TrimStart(Tail(s)) ELSE s

RECURSIVE TrimEnd(_)
TrimEnd(s) ==
    IF s # <<>> /\ s[Len(s)] = " " THEN TrimEnd(SubSeq(s, 1, Len(s) - 1)) ELSE s

trim(s) == TrimEnd(TrimStart(s))

\* a plausible slip: the roll numbers are compared as typed
toLowerCase_identity(s) == s

\* String.prototype.toLowerCase
toLowerCase(s) == [i \in 1..Len(s) |-> IF s[i] = "A" THEN "a" ELSE s[i]]

\* students.find(st => st.rollNo.trim().toLowerCase() === r.trim().toLowerCase()
\*                     && st.examName === ex); NoStudent for undefined
FindStudent(ss, r, ex) ==
    LET Match(st) == /\ toLowerCase(trim(st.rollNo)) = toLowerCase(trim(r))
                     /\ st.examName = ex
    IN  IF \E i \in 1..Len(ss) : Match(ss[i])
        THEN ss[CHOOSE i \in 1..Len(ss) :
                  Match(ss[i]) /\ \A j \in 1..(i - 1) : ~Match(ss[j])]
        ELSE NoStudent

FindExams == {"Finals", "finals"}
StoredRolls == {<<"a", "1">>, <<"A", "1">>, <<" ", "a", "1", " ">>, <<"a", " ", "1">>,
                <<"1">>, <<>>}
QueriedRolls == {<<"a", "1">>, <<"A", "1">>, <<" ", "A", "1">>, <<"a", " ", "1">>,
                 <<"1", " ">>, <<" ">>}

StoredStudent(id, roll, exam) ==
    processStudentData([id |-> id, name |-> "Asha", rollNo |-> roll, className |-> "10A",
                        examName |-> exam, marks |-> SheetMarks], 0)

FindStores ==
    {<<>>}
        \cup {<<StoredStudent(11, r, e)>> : r \in StoredRolls, e \in FindExams}
        \cup {<<StoredStudent(11, r, e), StoredStudent(12, q, f)>> :
                r \in StoredRolls, e \in FindExams, q \in StoredRolls, f \in FindExams}

\* the option list of the landing page: the exam names of the students
LandingExams == {students[i].examName : i \in 1..Len(students)}

InitFind ==
    /\ pc = "find"
    /\ Quiet
    /\ formData = EmptyForm
    /\ students \in FindStores
    /\ exams = <<>>
    /\ probe = [op |-> "none", rollNo |-> <<>>, exam |-> "", alert |-> FALSE]

\* View Marksheet (enabled with a roll number and an exam chosen): onCheckResult(r, ex);
\* probe keeps what was asked and whether alert('Record not found.') was shown
onCheckResult(r, ex) ==
    /\ pc = "find"
    /\ page = "landing"
    /\ r # <<>> /\ ex \in LandingExams
    /\ LET s == FindStudent(students, r, ex)
       IN  /\ IF s # NoStudent
              THEN selected' = s /\ page' = "result"
              ELSE UNCHANGED <<selected, page>>
           /\ probe' = [op |-> "check", rollNo |-> r, exam |-> ex,
                        alert |-> s = NoStudent]
    /\ UNCHANGED <<pc, durableVars, bootVars, storeVars, isAdmin, currentExam,
                   showExamModal, formVars, showScanner, scannerVars, inflight, uuid>>

\* StudentResult: Back to Search
onBack ==
    /\ pc = "find"
    /\ page = "result"
    /\ page' = "landing"
    /\ UNCHANGED <<pc, durableVars, bootVars, storeVars, isAdmin, selected, currentExam,
                   showExamModal, formVars, showScanner, scannerVars, inflight, uuid,
                   probe>>

NextFind ==
    \/ \E r \in QueriedRolls, ex \in FindExams : onCheckResult(r, ex)
    \/ onBack

SpecFind == InitFind /\ [][NextFind]_vars

----------------------------------------------------------------------------
(* Properties *)

\* the sum of the five subject marks, an absent or unreadable mark counting 0
FiveSum(m) ==
    SumSeq([i \in 1..5 |-> IF SubjectOrder[i] \in DOMAIN m
                           THEN NumberOrZero(m[SubjectOrder[i]]) ELSE 0])

\* the letter of a percentage given in hundredths, by the thresholds of the
\* specification
GradeOf(p) ==
    CASE p >= 9000 -> "A+"
      [] p < 9000 /\ p >= 8000 -> "A"
      [] p < 8000 /\ p >= 7000 -> "B"
      [] p < 7000 /\ p >= 5500 -> "C"
      [] p < 5500 /\ p >= 3500 -> "D"
      [] OTHER -> "F"

Derived(s) ==
    /\ s.total = FiveSum(s.marks)
    /\ 5 * s.percentage = 100 * s.total
    /\ s.grade = GradeOf(s.percentage)

\* C1: every stored student has total = the sum of its five subject marks,
\* percentage = total / 5 to two decimals and grade = the letter of that percentage.
C1_DerivedFieldsConsistent ==
    \A i \in 1..Len(students) : Derived(students[i])

\* C2: every stored student's examName is the name of an exam of the store.
C2_NoOrphanStudent ==
    \A i \in 1..Len(students) :
        \E j \in 1..Len(exams) : students[i].examName = exams[j].name

\* the number of students of ss filed under the exam name n
CountOf(ss, n) == Cardinality({i \in 1..Len(ss) : ss[i].examName = n})

\* the students of ss not filed under n, in their order
Others(ss, n) ==
    LET Keep(s) == s.examName # n IN SelectSeq(ss, Keep)

\* C3: deleteExam(id) of an existing exam removes that exam alone and exactly the
\* students filed under its name: the others stay as they were and in their order,
\* the count falls by the number of students of that name (also when a second exam
\* has the name); an id of no exam changes neither collection.
C3_DeleteExamCascade ==
    probe.op = "deleteExam" =>
        LET had == {j \in 1..Len(probe.exams) : probe.exams[j].id = probe.id}
        IN  IF had = {}
            THEN students = probe.students /\ exams = probe.exams
            ELSE LET n == probe.exams[CHOOSE j \in had : TRUE].name
                 IN  /\ \A i \in 1..Len(students) : students[i].examName # n
                     /\ students = Others(probe.students, n)
                     /\ Len(students) = Len(probe.students) - CountOf(probe.students, n)
                     /\ Len(exams) = Len(probe.exams) - 1
                     /\ \A j \in 1..Len(exams) : exams[j].id # probe.id
                     /\ \A j \in 1..Len(probe.exams) :
                           probe.exams[j].id # probe.id =>
                               \E k \in 1..Len(exams) : exams[k] = probe.exams[j]

\* C3 witness: an exam was deleted, a student of its name went, a student of another
\* name stayed, and a second exam of the deleted name is still there.
C3_CascadeSeen ==
    /\ probe.op = "deleteExam"
    /\ Len(probe.students) = 2 /\ Len(students) = 1
    /\ Len(probe.exams) = 2 /\ Len(exams) = 1
    /\ probe.exams[1].name = probe.exams[2].name

\* C4: a scan whose scanner was closed before it settled is discarded: its settling
\* leaves the form data, the form's visibility and both collections as they were.
C4_ClosedScanDiscarded ==
    [][\A i \in 1..MaxInflight, resp \in Responses :
          (ResolveScan(i, resp) /\ ~inflight[i].own) =>
              UNCHANGED <<formData, showStudentModal, students, exams>>]_vars

\* C5: a failed extraction (the call rejects, the text is no JSON) leaves both
\* collections and both durable values as they were and hands no record to the
\* form; only the scanner that started it, if still shown, learns of it.
C5_FailureTouchesNoStore ==
    [][\A i \in 1..MaxInflight, resp \in {"transport", "unparseable"} :
          ResolveScan(i, resp) =>
              /\ UNCHANGED <<students, exams, durableS, durableE>>
              /\ UNCHANGED <<formData, showStudentModal, editingId, showScanner>>
              /\ ~inflight[i].own => UNCHANGED scannerVars]_vars

\* C5 witness: a scanner showing the failure of its own attempt, over a store that
\* holds a student.
C5_FailureSeen ==
    /\ showScanner /\ cameraActive /\ scanError /\ ~capturedImage /\ ~isScanning
    /\ inflight = <<>>
    /\ Len(students) > 0

\* C6: an answer that is a transport error, no JSON, or JSON outside the schema
\* ends Failed: no record reaches the form, the scanner that asked shows the error.
C6_NonConformingFails ==
    [][\A i \in 1..MaxInflight, resp \in {"transport", "unparseable", "empty", "missing"} :
          ResolveScan(i, resp) =>
              /\ UNCHANGED <<formData, showStudentModal, showScanner>>
              /\ inflight[i].own => scanError']_vars

\* the collection a stored value stands for: empty unless it is a serialised one
Loaded(blob) == IF blob.kind = "json" THEN blob.items ELSE <<>>

\* C7: the start never fails on what localStorage holds: it completes, and each
\* collection is loaded from its own key, absent or corrupt values giving empty.
C7_StartNeverFails ==
    /\ pc # "crashed"
    /\ (pc = "effects" /\ dirtyS /\ dirtyE) =>
          /\ queuedS.items = Loaded(durableS)
          /\ queuedE.items = Loaded(durableE)

\* C8: once the effects due have run, each durable value is the serialised
\* collection in memory; a flush writes the collection as it is, and a flush of a
\* collection already stored changes nothing.
C8_FlushFollowsMutation ==
    /\ [](Idle => /\ durableS.kind = "json" /\ Parse(durableS) = students
                  /\ durableE.kind = "json" /\ Parse(durableE) = exams)
    /\ [][/\ FlushStudents => Parse(durableS') = students
          /\ FlushExams => Parse(durableE') = exams
          /\ (FlushStudents /\ durableS.kind = "json" /\ Parse(durableS) = students)
                => durableS' = durableS
          /\ (students' # students /\ pc = "running") => dirtyS'
          /\ (exams' # exams /\ pc = "running") => dirtyE']_vars

\* C8 witness: two students in memory after a save, and the same two stored.
C8_FlushedSeen ==
    /\ Idle
    /\ uuid > SeedUuid
    /\ Len(students) = 2
    /\ Parse(durableS) = students

\* C9: normalize returns marks with all five subject keys, each a number.
C9_MarksComplete ==
    \A i \in 1..Len(students) :
        /\ DOMAIN students[i].marks = Subjects
        /\ \A k \in DOMAIN students[i].marks : students[i].marks[k].t = "num"

IsClean(m) ==
    /\ DOMAIN m = Subjects
    /\ \A k \in Subjects : m[k].t = "num" /\ m[k].v \in 0..MaxMark

\* the letter by the total of five marks: 450 of 500 is 90.00
GradeOfTotal(t) ==
    IF t >= 450 THEN "A+" ELSE IF t >= 400 THEN "A" ELSE IF t >= 350 THEN "B"
    ELSE IF t >= 275 THEN "C" ELSE IF t >= 175 THEN "D" ELSE "F"

\* C10: for five integer marks in 0..100: total = their sum (at most 500),
\* percentage = total / 5 to two decimals, and the grade is A+ from 90, A from 80,
\* B from 70, C from 55, D from 35, F below, each threshold included.
C10_GradeOfCleanMarks ==
    \A i \in 1..Len(students) :
        LET s == students[i]
            m == s.marks
        IN  IsClean(m) =>
              /\ s.total = m.math.v + m.science.v + m.english.v + m.history.v
                             + m.computer.v
              /\ s.total <= 500
              /\ 5 * s.percentage = 100 * s.total
              /\ s.grade = GradeOfTotal(s.total)

\* C10 witness: the marks 95, 92, 88, 90, 85 were graded: 450, 90.00, A+.
C10_BoundarySeen ==
    /\ Len(students) = 1
    /\ IsClean(students[1].marks)
    /\ students[1].marks.math = Num(95)
    /\ students[1].total = 450
    /\ students[1].percentage = 9000
    /\ students[1].grade = "A+"

\* the ids of a collection, in its order
Ids(ss) == [i \in 1..Len(ss) |-> ss[i].id]

\* C11: no two stored students share an id; a save of a form without an id appends
\* one record whose id is none of the stored ids and keeps the ids before it; a save
\* of an edit keeps every stored id in its place.
C11_IdsUniqueImmutable ==
    /\ [](\A i, j \in 1..Len(students) : i # j => students[i].id # students[j].id)
    /\ [][handleStudentSubmit =>
             IF editingId = 0
             THEN /\ Len(students') = Len(students) + 1
                  /\ SubSeq(Ids(students'), 1, Len(students)) = Ids(students)
                  /\ \A i \in 1..Len(students) :
                        students'[Len(students')].id # students[i].id
             ELSE Ids(students') = Ids(students)]_vars

\* C11 witness: the student loaded at the start was edited and saved under its id,
\* and a second student was created beside it.
C11_EditSaved ==
    /\ Idle
    /\ Len(students) = 2
    /\ students[1].id = SeedStudent.id
    /\ students[1].name # SeedStudent.name
    /\ students[2].id > SeedUuid

\* C12: inside a folder, the record a successful scan delivers to the form carries
\* the folder's name as examName, whatever the sheet says, and the student a save
\* of the form stores carries the folder's name.
C12_FolderNameWins ==
    [][/\ \A i \in 1..MaxInflight, resp \in Responses :
             (/\ ResolveScan(i, resp)
              /\ extractStudentDetailsFromImage(resp).ok
              /\ inflight[i].live
              /\ currentExam # NoExam)
                 => /\ Has(formData', "examName")
                    /\ formData'.examName = currentExam.name
       /\ (handleStudentSubmit /\ currentExam # NoExam) =>
             IF editingId = 0
             THEN students'[Len(students')].examName = currentExam.name
             ELSE \A k \in 1..Len(students') :
                     students'[k].id = editingId =>
                         students'[k].examName = currentExam.name]_vars

\* the pending submissions of the scanner that is mounted
OwnPending == {i \in 1..Len(inflight) : inflight[i].own}

\* C13: a submission starts only by a capture, one per capture and only from a
\* scanner with none pending; while it is pending the scanner holds the image (no
\* capture button); a failure removes it, starts none and returns the scanner to
\* the camera with the error shown; a success or failure ends the attempt.
C13_OneSubmissionPerCapture ==
    /\ [](Cardinality(OwnPending) <= 1)
    /\ [](OwnPending # {} => showScanner /\ capturedImage /\ isScanning)
    /\ [][Len(inflight') > Len(inflight) =>
             /\ Len(inflight') = Len(inflight) + 1
             /\ OwnPending = {}
             /\ ~capturedImage /\ capturedImage' /\ isScanning'
             /\ inflight'[Len(inflight')].own]_vars
    /\ [][\A i \in 1..MaxScans, resp \in Responses :
             ResolveScan(i, resp) =>
                 /\ Len(inflight') = Len(inflight) - 1
                 /\ inflight[i].own => \A j \in 1..Len(inflight') : ~inflight'[j].own
                 /\ (inflight[i].own /\ ~extractStudentDetailsFromImage(resp).ok) =>
                        /\ scanError' /\ ~capturedImage' /\ ~isScanning'
                        /\ cameraActive']_vars

\* C13 witness: a reopened scanner has its own submission pending beside the
\* submission of a scanner closed before, after an attempt of its own that failed.
C13_SecondAttemptSeen ==
    /\ Len(inflight) = 2
    /\ ~inflight[1].own /\ inflight[2].own
    /\ scanError /\ capturedImage /\ isScanning

\* a roll number without the spaces around it
Core(s) ==
    LET solid == {i \in 1..Len(s) : s[i] # " "}
    IN  IF solid = {} THEN <<>>
        ELSE SubSeq(s, CHOOSE i \in solid : \A j \in solid : i <= j,
                       CHOOSE i \in solid : \A j \in solid : i >= j)

\* two roll numbers equal but for the spaces around them and the case of letters
SameRoll(x, y) ==
    /\ Len(Core(x)) = Len(Core(y))
    /\ \A i \in 1..Len(Core(x)) :
          \/ Core(x)[i] = Core(y)[i]
          \/ {Core(x)[i], Core(y)[i]} = {"a", "A"}

\* C14: the lookup shows the first stored student whose rollNo equals the queried one
\* but for surrounding spaces and letter case and whose examName is the queried one
\* exactly; when there is none it reports not-found and leaves the selected record
\* and the page; in both cases it leaves the store.
C14_FindByRollAndExam ==
    [][\A r \in QueriedRolls, ex \in FindExams :
          onCheckResult(r, ex) =>
              LET hits == {i \in 1..Len(students) :
                             /\ SameRoll(students[i].rollNo, r)
                             /\ students[i].examName = ex}
              IN  /\ UNCHANGED <<students, exams, durableS, durableE>>
                  /\ IF hits = {}
                     THEN probe'.alert /\ UNCHANGED <<selected, page>>
                     ELSE /\ ~probe'.alert
                          /\ page' = "result"
                          /\ selected' = students[CHOOSE i \in hits :
                                                     \A j \in hits : i <= j]]_vars

\* C14 witness: two students fit the query, neither with the roll number as it was
\* typed, and the first of them is shown.
C14_FirstMatchSeen ==
    /\ probe.op = "check" /\ ~probe.alert
    /\ page = "result"
    /\ Len(students) = 2
    /\ selected = students[1]
    /\ students[1].rollNo # probe.rollNo /\ students[2].rollNo # probe.rollNo
    /\ SameRoll(students[2].rollNo, probe.rollNo)
    /\ students[2].examName = probe.exam

\* C15: normalising a normalised record gives the same id, marks, total, percentage
\* and grade.
C15_NormalizeIdempotent ==
    Len(students) = 2 =>
        /\ students[2].id = students[1].id
        /\ students[2].marks = students[1].marks
        /\ students[2].total = students[1].total
        /\ students[2].percentage = students[1].percentage
        /\ students[2].grade = students[1].grade

\* C15 witness: a record made of an input without id and with marks outside the
\* schema was normalised twice.
C15_TwiceSeen ==
    /\ pc = "norm"
    /\ Len(students) = 2
    /\ ~Has(formData, "id")
    /\ students[1].id = uuid
    /\ DOMAIN students[1].marks # Subjects
    /\ students[1].total > 0

\* the forms a completed scan opens: the parsed answer under the folder's name
ScanForms ==
    {WithExamName(extractStudentDetailsFromImage(r).data, n) :
        r \in {x \in Responses : extractStudentDetailsFromImage(x).ok},
        n \in {TrimName(x) : x \in ExamInputs} \ {""}}

\* C16: a save of the form a completed scan opened (as delivered) appends exactly one
\* student, under an id no stored student has, and leaves the stored students as
\* they were.
C16_ScanSaveAddsOne ==
    [][(handleStudentSubmit /\ formData \in ScanForms) =>
          /\ Len(students') = Len(students) + 1
          /\ SubSeq(students', 1, Len(students)) = students
          /\ \A i \in 1..Len(students) :
                students'[Len(students')].id # students[i].id]_vars

\* C17: until the first event is handled, no step of the start (the load, the
\* flushes of the first commit, the render of what was loaded, the flushes after
\* it) changes the collection either key of localStorage holds.
C17_StartKeepsDurable ==
    [][(LoadEffect \/ FlushStudents \/ FlushExams \/ ApplyLoaded)
          /\ uuid = SeedUuid /\ page = "landing" /\ ~isAdmin
          => /\ Loaded(durableS') = Loaded(durableS)
             /\ Loaded(durableE') = Loaded(durableE)]_vars

\* C18: updateStudent(s) puts s in the place of the stored record of s.id and leaves
\* the other records, the count and the exams; a confirmed deleteStudent(id) removes
\* the record of that id and no other, a declined one nothing; with no stored record
\* of the id either leaves the students as they were.
C18_UpdateDeleteById ==
    LET before == probe.students
        hit == {i \in 1..Len(before) : before[i].id = probe.id}
    IN  /\ probe.op = "updateStudent" =>
              /\ exams = probe.exams
              /\ Len(students) = Len(before)
              /\ \A i \in 1..Len(before) :
                    students[i] = IF i \in hit THEN probe.record ELSE before[i]
              /\ hit = {} => students = before
        /\ probe.op = "deleteStudent" =>
              /\ exams = probe.exams
              /\ IF probe.confirmed
                 THEN /\ Len(students) = Len(before) - Cardinality(hit)
                      /\ \A i \in 1..Len(students) : students[i].id # probe.id
                      /\ \A i \in 1..Len(before) :
                            i \notin hit =>
                                students[i - Cardinality({j \in hit : j < i})] = before[i]
                 ELSE students = before
              /\ hit = {} => students = before

\* C18 witness: of three students the second was replaced by an edited record, the
\* first and the third stayed.
C18_MiddleReplaced ==
    /\ probe.op = "updateStudent"
    /\ Len(students) = 3
    /\ students[2] = probe.record /\ probe.students[2] # probe.record
    /\ students[1] = probe.students[1] /\ students[3] = probe.students[3]

====
